---- MODULE Spec2Model ----
(***************************************************************************)
(* Model of src/tracer.rs: the Tracer component with its on_add hook (the  *)
(* spawn orchestrator), the DespawnAfter marker and the despawn_tracers    *)
(* system (the expiry sweep), run by the host schedule: a Startup pass,    *)
(* then one Update pass per tick, with deferred commands applied at        *)
(* synchronization points.                                                 *)
(***************************************************************************)
EXTENDS Integers, Sequences, FiniteSets, TLC

\* const TRACER_DURATION_MILLIS: u64 = 100;  (time is counted in milliseconds)
TRACER_DURATION_MILLIS == 100

\* Bounds of the model.
MaxHosts == 2        \* entities the caller spawns
MaxInserts == 1      \* commands.entity(e).insert(Tracer) requests of the caller
MaxDeltaSteps == 1   \* a tick advances the clock by 0..MaxDeltaSteps half-lifetimes
MaxTime == 200       \* the clock stops advancing here
MaxQueue == 2        \* caller commands pending between two synchronization points

MaxEntity == MaxHosts + 3 * (MaxHosts + MaxInserts)
Entities == 1..MaxEntity

\* The clock advances of one tick (0: the first frame, or a paused clock).
Deltas == {k * (TRACER_DURATION_MILLIS \div 2) : k \in 0..MaxDeltaSteps}

VARIABLES
    world,      \* the ECS world: entities, their components, resources
    queue,      \* deferred commands waiting for the next synchronization point
    phase,      \* the schedule being run: "Startup", then "Update" once per tick
    ran,        \* the systems of this module already run in the current pass
    spawns,     \* caller's spawn requests so far
    inserts     \* caller's insert requests so far

vars == <<world, queue, phase, ran, spawns, inserts>>

(***************************************************************************)
(* The world.  An absent component is FALSE or the empty sequence; a       *)
(* present DespawnAfter, ChildOf, Tracer end, Transform translation or     *)
(* rotation, or beam (mesh and material) is a one-element sequence.  The   *)
(* fields                                                                  *)
(* prevElapsed, hookRuns, spawned, attachedAt, replaced, despawnQueued,    *)
(* removed and stale are history: they record what happened and are read   *)
(* by no operation.                                                        *)
(***************************************************************************)
EmptyWorld ==
    [ alive         |-> {},
      nextId        |-> 1,
      tracer        |-> [e \in Entities |-> FALSE],
      transform     |-> [e \in Entities |-> FALSE],
      visibility    |-> [e \in Entities |-> FALSE],
      despawnAfter  |-> [e \in Entities |-> <<>>],
      parent        |-> [e \in Entities |-> <<>>],
      kind          |-> [e \in Entities |-> "none"],
      tracerEnd     |-> [e \in Entities |-> <<>>],
      translation   |-> [e \in Entities |-> <<>>],
      rotation      |-> [e \in Entities |-> <<>>],
      beam          |-> [e \in Entities |-> <<>>],
      muzzleFlash   |-> FALSE,
      elapsed       |-> 0,
      panicked      |-> FALSE,
      prevElapsed   |-> 0,
      spawned       |-> {},
      replaced      |-> {},
      hookRuns      |-> [e \in Entities |-> 0],
      attachedAt    |-> [e \in Entities |-> <<>>],
      despawnQueued |-> [e \in Entities |-> 0],
      removed       |-> {},
      stale         |-> {} ]

\* struct DespawnAfter { spawned_at, lifetime }
DespawnAfter(spawned_at, lifetime) ==
    [spawned_at |-> spawned_at, lifetime |-> lifetime]

(***************************************************************************)
(* Vectors, rotations and f32 seconds.  A coordinate is an integer count   *)
(* of half world units (fixed point with one fractional bit), so that the  *)
(* halving of a vector between integer points is exact.  A length is kept  *)
(* exactly, by its square.  A normalized vector is kept by the primitive   *)
(* integer vector of its direction; the empty tuple stands for a vector of *)
(* NaN components.                                                         *)
(***************************************************************************)
Vec3(x, y, z) == <<2 * x, 2 * y, 2 * z>>
NaNVec == <<>>
\* Vec3::Y and Vec3::NEG_Z, as normalized vectors
Y == <<0, 1, 0>>
NEG_Z == <<0, 0, -1>>

Sub(a, b) == <<a[1] - b[1], a[2] - b[2], a[3] - b[3]>>
Neg(a) == <<-a[1], -a[2], -a[3]>>
Dot(a, b) == a[1] * b[1] + a[2] * b[2] + a[3] * b[3]
\* direction / 2.0
Half(a) == <<a[1] \div 2, a[2] \div 2, a[3] \div 2>>
\* direction.length(): the square root of sq, in half units
Length(a) == [sq |-> Dot(a, a)]
\* the scalar x, as a length
Scalar(x) == [sq |-> (2 * x) * (2 * x)]

Abs(x) == IF x < 0 THEN -x ELSE x
RECURSIVE Gcd(_, _)
Gcd(a, b) == IF b = 0 THEN a ELSE Gcd(b, a % b)

\* direction.normalize(): a zero vector is multiplied by 1/0 and gives NaN
\* components (glam built without its assertions, the default).
Normalize(a) ==
    IF Dot(a, a) = 0 THEN NaNVec
    ELSE LET g == Gcd(Gcd(Abs(a[1]), Abs(a[2])), Abs(a[3]))
         IN <<a[1] \div g, a[2] \div g, a[3] \div g>>

\* Quat::from_rotation_arc(from, to) on normalized vectors: the identity when
\* they coincide, a half turn about an axis orthogonal to from when they are
\* opposite, the shortest arc otherwise; with a NaN operand both comparisons
\* of the dot product fail and the arc branch computes a NaN quaternion.
Quat(kind, from, to) == [kind |-> kind, from |-> from, to |-> to]
IDENTITY == Quat("identity", <<>>, <<>>)
NaNQuat == Quat("nan", <<>>, <<>>)
FromRotationArc(from, to) ==
    IF to = NaNVec \/ from = NaNVec THEN NaNQuat
    ELSE IF from = to THEN IDENTITY
    ELSE IF to = Neg(from) THEN Quat("half_turn", from, to)
    ELSE Quat("arc", from, to)

\* Whether rotation q takes the normalized vector a onto b (decided for
\* a = q.from or b = q.to; a rotation is one-to-one).
RotatesOnto(q, a, b) ==
    CASE q.kind = "nan" -> FALSE
      [] q.kind = "identity" -> a = b /\ a # NaNVec
      [] OTHER -> a = q.from /\ b = q.to

\* The f32 nearest to num/den (ties to even), as mant * 2^(-scale) with
\* 2^23 <= mant < 2^24; zero is mant 0.
RECURSIVE F32Bits(_, _, _, _)
F32Bits(q, r, den, k) ==
    IF q >= 2^23
    THEN LET up == (2 * r > den) \/ (2 * r = den /\ q % 2 = 1)
             m == IF up THEN q + 1 ELSE q
         IN IF m = 2^24 THEN [mant |-> 2^23, scale |-> k - 1]
            ELSE [mant |-> m, scale |-> k]
    ELSE LET bit == IF 2 * r >= den THEN 1 ELSE 0
         IN F32Bits(2 * q + bit, 2 * r - bit * den, den, k + 1)
RoundF32(num, den) ==
    IF num = 0 THEN [mant |-> 0, scale |-> 0]
    ELSE F32Bits(num \div den, num % den, den, 0)

\* Duration::as_secs_f32 of a duration of ms milliseconds (the single rounding
\* is what the code computes for durations under one second).
AsSecsF32(ms) ==
    LET g == Gcd(ms, 1000) IN
    IF ms = 0 THEN RoundF32(0, 1) ELSE RoundF32(ms \div g, 1000 \div g)

\* const TRACER_RADIUS: f32 = 0.05, and tracer_length: 0.3
TRACER_RADIUS == [num |-> 1, den |-> 20]
TRACER_LENGTH == [num |-> 3, den |-> 10]

(***************************************************************************)
(* Deferred commands.                                                      *)
(***************************************************************************)
Cmd(op, e) ==
    [op |-> op, e |-> e, tf |-> FALSE, tr |-> FALSE,
     parent |-> <<>>, kind |-> "none", marker |-> <<>>,
     end |-> <<>>, at |-> <<>>, rot |-> <<>>, beam |-> <<>>]

\* caller: commands.spawn(bundle); tf: the bundle holds a Transform (at
\* origin, not rotated), tr: it holds a Tracer { end }
SpawnCmd(e, tf, tr, origin, end) ==
    [Cmd("spawn", e) EXCEPT !.tf = tf, !.tr = tr,
                            !.at = IF tf THEN <<origin>> ELSE <<>>,
                            !.rot = IF tf THEN <<IDENTITY>> ELSE <<>>,
                            !.end = IF tr THEN <<end>> ELSE <<>>]
\* caller: commands.entity(e).insert(Tracer { end })
InsertTracerCmd(e, end) == [Cmd("insert_tracer", e) EXCEPT !.end = <<end>>]
\* commands.insert_resource(MuzzleFlashEffect(handle))
InsertResourceCmd == Cmd("insert_resource", 1)
\* commands.entity(entity).despawn_recursive()
DespawnCmd(e) == Cmd("despawn_recursive", e)
\* caller: commands.entity(e).despawn(), a removal by external means
ExternalDespawnCmd(e) == Cmd("despawn_external", e)
\* .insert(despawn_after)
InsertDespawnAfterCmd(e, m) == [Cmd("insert_despawn_after", e) EXCEPT !.marker = <<m>>]
\* .insert(Visibility::default())
InsertVisibilityCmd(e) == Cmd("insert_visibility", e)
\* parent.spawn(bundle) inside with_children
SpawnChildCmd(c, p, k) == [Cmd("spawn_child", c) EXCEPT !.parent = <<p>>, !.kind = k]

Result(w, cmds) == [w |-> w, cmds |-> cmds]

Children(w, e) == {c \in w.alive : w.parent[c] = <<e>>}

RECURSIVE Subtree(_, _)
Subtree(w, e) == {e} \cup UNION {Subtree(w, c) : c \in Children(w, e)}

\* What a despawn takes away: the entity and all its descendants.
DespawnTargetsShallow(w, e) == {e}
DespawnTargetsDescendants(w, e) == Subtree(w, e) \ {e}
DespawnTargets(w, e) == Subtree(w, e)

\* despawn_recursive applied: a missing entity is skipped.
DespawnRecursive(w, e) ==
    IF e \notin w.alive THEN w
    ELSE LET gone == DespawnTargets(w, e) IN
         [w EXCEPT !.alive        = @ \ gone,
                   !.tracer       = [x \in Entities |-> IF x \in gone THEN FALSE ELSE @[x]],
                   !.transform    = [x \in Entities |-> IF x \in gone THEN FALSE ELSE @[x]],
                   !.visibility   = [x \in Entities |-> IF x \in gone THEN FALSE ELSE @[x]],
                   !.despawnAfter = [x \in Entities |-> IF x \in gone THEN <<>> ELSE @[x]],
                   !.parent       = [x \in Entities |-> IF x \in gone THEN <<>> ELSE @[x]],
                   !.kind         = [x \in Entities |-> IF x \in gone THEN "none" ELSE @[x]],
                   !.tracerEnd    = [x \in Entities |-> IF x \in gone THEN <<>> ELSE @[x]],
                   !.translation  = [x \in Entities |-> IF x \in gone THEN <<>> ELSE @[x]],
                   !.rotation     = [x \in Entities |-> IF x \in gone THEN <<>> ELSE @[x]],
                   !.beam         = [x \in Entities |-> IF x \in gone THEN <<>> ELSE @[x]],
                   !.removed      = @ \cup gone]

\* The marker the hook builds: spawned_at is the clock read, lifetime the constant.
MarkerLifetimeInSeconds(t) == DespawnAfter(t, TRACER_DURATION_MILLIS * 1000)
MarkerStampedZero(t) == DespawnAfter(0, TRACER_DURATION_MILLIS)
NewMarker(t) == DespawnAfter(t, TRACER_DURATION_MILLIS)

\* TracerShader { .. }: the material of the beam, its times in f32 seconds.
TracerMaterialOwnClock(current_time, lifetime) ==
    [tracer_start |-> "WHITE", tracer_end |-> "YELLOW",
     time_spawned |-> AsSecsF32(0),
     time_alive |-> AsSecsF32(lifetime),
     tracer_length |-> TRACER_LENGTH]
TracerMaterial(current_time, lifetime) ==
    [tracer_start |-> "WHITE", tracer_end |-> "YELLOW",
     time_spawned |-> AsSecsF32(current_time),
     time_alive |-> AsSecsF32(lifetime),
     tracer_length |-> TRACER_LENGTH]

\* What the hook computes from the host's translation and the Tracer's end:
\* the cylinder, the beam's Transform (from_rotation, then translation +=
\* direction / 2.0) and the rotation of the particles.
TracerGeometryFromEnd(tracer_start, end) ==
    LET direction == Sub(tracer_start, end)
        distance == Length(direction)
    IN [mesh |-> [radius |-> TRACER_RADIUS, height |-> distance],
        rotation |-> FromRotationArc(Y, Normalize(direction)),
        translation |-> Half(direction),
        particle_rotation |-> FromRotationArc(NEG_Z, Normalize(direction))]
TracerGeometry(tracer_start, end) ==
    LET direction == Sub(end, tracer_start)
        distance == Length(direction)
    IN [mesh |-> [radius |-> TRACER_RADIUS, height |-> distance],
        rotation |-> FromRotationArc(Y, Normalize(direction)),
        translation |-> Half(direction),
        particle_rotation |-> FromRotationArc(NEG_Z, Normalize(direction))]

\* The commands the hook queues for host e, its children taking ids from c on:
\* the beam (mesh, material, transform), the light (Transform::default()) and
\* the particles (Transform::from_rotation(particle_rotation)).
HookCommandsNoParticles(e, m, c, g, material) ==
    << InsertDespawnAfterCmd(e, m), InsertVisibilityCmd(e),
       [SpawnChildCmd(c, e, "beam") EXCEPT
            !.at = <<g.translation>>, !.rot = <<g.rotation>>,
            !.beam = <<[mesh |-> g.mesh, material |-> material]>>],
       [SpawnChildCmd(c + 1, e, "light") EXCEPT
            !.at = <<Vec3(0, 0, 0)>>, !.rot = <<IDENTITY>>] >>
HookCommands(e, m, c, g, material) ==
    << InsertDespawnAfterCmd(e, m), InsertVisibilityCmd(e),
       [SpawnChildCmd(c, e, "beam") EXCEPT
            !.at = <<g.translation>>, !.rot = <<g.rotation>>,
            !.beam = <<[mesh |-> g.mesh, material |-> material]>>],
       [SpawnChildCmd(c + 1, e, "light") EXCEPT
            !.at = <<Vec3(0, 0, 0)>>, !.rot = <<IDENTITY>>],
       [SpawnChildCmd(c + 2, e, "particles") EXCEPT
            !.at = <<Vec3(0, 0, 0)>>, !.rot = <<g.particle_rotation>>] >>

\* The on_add hook of Tracer, run on entity e: the unwrap of the Transform and
\* the read of the MuzzleFlashEffect resource panic when these are missing.
TracerOnAddDefaultTransform(w, e) ==
    LET w1 == [w EXCEPT !.hookRuns[e] = @ + 1] IN
    IF ~w.muzzleFlash
    THEN Result([w1 EXCEPT !.panicked = TRUE], <<>>)
    ELSE LET current_time == w.elapsed
             despawn_after == NewMarker(current_time)
             tracer_start == IF w.transform[e] THEN w.translation[e][1]
                             ELSE Vec3(0, 0, 0)
         IN Result([w1 EXCEPT !.nextId = @ + 3, !.spawned = @ \cup {e}],
                   HookCommands(e, despawn_after, w.nextId,
                                TracerGeometry(tracer_start, w.tracerEnd[e][1]),
                                TracerMaterial(current_time, despawn_after.lifetime)))
TracerOnAdd(w, e) ==
    LET w1 == [w EXCEPT !.hookRuns[e] = @ + 1] IN
    IF ~w.transform[e] \/ ~w.muzzleFlash
    THEN Result([w1 EXCEPT !.panicked = TRUE], <<>>)
    ELSE LET current_time == w.elapsed
             despawn_after == NewMarker(current_time)
             tracer_start == w.translation[e][1]
         IN Result([w1 EXCEPT !.nextId = @ + 3, !.spawned = @ \cup {e}],
                   HookCommands(e, despawn_after, w.nextId,
                                TracerGeometry(tracer_start, w.tracerEnd[e][1]),
                                TracerMaterial(current_time, despawn_after.lifetime)))

\* hooks.on_add: the hook fires when the component is added to an entity that
\* does not carry it, not when its value is replaced.
HookFiresOnInsert(w, e) == TRUE
HookFires(w, e) == ~w.tracer[e]

\* A Tracer inserted on entity e (a missing entity is skipped).  The component
\* stays on the entity: nothing in the hook removes it.
InsertTracerConsumed(w, e, end) ==
    IF e \notin w.alive THEN Result(w, <<>>)
    ELSE IF HookFires(w, e)
         THEN LET r == TracerOnAdd([w EXCEPT !.tracerEnd[e] = end,
                                             !.attachedAt[e] =
                                                 IF @ = <<>> THEN <<w.elapsed>> ELSE @], e)
              IN Result([r.w EXCEPT !.tracerEnd[e] = <<>>], r.cmds)
         ELSE Result([w EXCEPT !.replaced = @ \cup {e}], <<>>)
InsertTracer(w, e, end) ==
    IF e \notin w.alive THEN Result(w, <<>>)
    ELSE IF HookFires(w, e)
         THEN TracerOnAdd([w EXCEPT !.tracer[e] = TRUE,
                                    !.tracerEnd[e] = end,
                                    !.attachedAt[e] =
                                        IF @ = <<>> THEN <<w.elapsed>> ELSE @], e)
         ELSE Result([w EXCEPT !.tracerEnd[e] = end,
                               !.replaced = @ \cup {e}], <<>>)

ApplyCommand(w, c) ==
    CASE c.op = "spawn" ->
            LET w1 == [w EXCEPT !.alive = @ \cup {c.e},
                                !.transform[c.e] = c.tf,
                                !.translation[c.e] = c.at,
                                !.rotation[c.e] = c.rot,
                                !.kind[c.e] = "host"]
            IN IF c.tr THEN InsertTracer(w1, c.e, c.end) ELSE Result(w1, <<>>)
      [] c.op = "insert_tracer" -> InsertTracer(w, c.e, c.end)
      [] c.op = "insert_resource" -> Result([w EXCEPT !.muzzleFlash = TRUE], <<>>)
      [] c.op \in {"despawn_recursive", "despawn_external"} ->
            \* stale: the removal commands that found their entity gone
            Result(IF c.e \in w.alive THEN DespawnRecursive(w, c.e)
                   ELSE [w EXCEPT !.stale = @ \cup {<<c.e, c.op>>}], <<>>)
      [] c.op = "insert_despawn_after" ->
            Result(IF c.e \in w.alive THEN [w EXCEPT !.despawnAfter[c.e] = c.marker]
                   ELSE w, <<>>)
      [] c.op = "insert_visibility" ->
            Result(IF c.e \in w.alive THEN [w EXCEPT !.visibility[c.e] = TRUE]
                   ELSE w, <<>>)
      [] c.op = "spawn_child" ->
            Result([w EXCEPT !.alive = @ \cup {c.e},
                             !.parent[c.e] = c.parent,
                             !.kind[c.e] = c.kind,
                             !.transform[c.e] = TRUE,
                             !.translation[c.e] = c.at,
                             !.rotation[c.e] = c.rot,
                             !.beam[c.e] = c.beam,
                             !.visibility[c.e] = (c.kind # "particles")], <<>>)

(***************************************************************************)
(* A synchronization point: every queued command is applied in order, and  *)
(* the commands a hook queues while a command is applied are applied right *)
(* after that command, before the next one.  A panic ends the run.         *)
(***************************************************************************)
RECURSIVE FlushHooksLater(_, _, _)
FlushHooksLater(w, q, later) ==
    IF q = <<>> \/ w.panicked THEN [w |-> w, q |-> later]
    ELSE LET r == ApplyCommand(w, Head(q)) IN
         FlushHooksLater(r.w, Tail(q), later \o r.cmds)
FlushDeferringHooks(w, q) == FlushHooksLater(w, q, <<>>)

RECURSIVE Flush(_, _)
Flush(w, q) ==
    IF q = <<>> \/ w.panicked THEN [w |-> w, q |-> <<>>]
    ELSE LET r == ApplyCommand(w, Head(q)) IN Flush(r.w, r.cmds \o Tail(q))

(***************************************************************************)
(* despawn_tracers                                                         *)
(***************************************************************************)
\* tracer.spawned_at + tracer.lifetime < time.elapsed()
ExpiredAtDeadline(m, t) == m.spawned_at + m.lifetime <= t
ExpiredLate(m, t) == m.spawned_at + 2 * m.lifetime < t
ExpiredNoLifetime(m, t) == m.spawned_at < t
Expired(m, t) == m.spawned_at + m.lifetime < t

\* Query<(Entity, &DespawnAfter)> filtered by the comparison
ExpiredEntities(w) ==
    {e \in w.alive : w.despawnAfter[e] # <<>> /\ Expired(w.despawnAfter[e][1], w.elapsed)}

RECURSIVE DespawnAll(_)
DespawnAll(S) ==
    IF S = {} THEN <<>>
    ELSE LET e == CHOOSE x \in S : \A y \in S : x <= y
         IN <<DespawnCmd(e)>> \o DespawnAll(S \ {e})

\* The commands one pass of the sweep queues.
SweepFirstOnly(w) ==
    LET S == ExpiredEntities(w) IN
    IF S = {} THEN <<>> ELSE <<DespawnCmd(CHOOSE x \in S : \A y \in S : x <= y)>>
SweepCommands(w) == DespawnAll(ExpiredEntities(w))

RECURSIVE NoteQueued(_, _)
NoteQueued(w, cmds) ==
    IF cmds = <<>> THEN w
    ELSE NoteQueued([w EXCEPT !.despawnQueued[Head(cmds).e] = @ + 1], Tail(cmds))

(***************************************************************************)
(* Initial state and actions                                               *)
(***************************************************************************)
Init ==
    /\ world = EmptyWorld
    /\ queue = <<>>
    /\ phase = "Startup"
    /\ ran = {}
    /\ spawns = 0
    /\ inserts = 0

\* app.add_systems(Startup, setup_muzzle_flash_particle_system)
setup_muzzle_flash_particle_system ==
    /\ ~world.panicked
    /\ phase = "Startup"
    /\ "setup_muzzle_flash_particle_system" \notin ran
    /\ queue' = Append(queue, InsertResourceCmd)
    /\ ran' = ran \cup {"setup_muzzle_flash_particle_system"}
    /\ UNCHANGED <<world, phase, spawns, inserts>>

\* The Startup schedule ends; the first tick begins at elapsed 0.
StartupDone ==
    /\ ~world.panicked
    /\ phase = "Startup"
    /\ "setup_muzzle_flash_particle_system" \in ran
    /\ queue = <<>>
    /\ phase' = "Update"
    /\ ran' = {}
    /\ UNCHANGED <<world, queue, spawns, inserts>>

\* A system of the caller queues the spawn of a host entity at origin, with
\* or without a Transform and a Tracer { end }.
RequestSpawnAt(tf, tr, origin, end) ==
    /\ ~world.panicked
    /\ spawns < MaxHosts
    /\ Len(queue) < MaxQueue
    /\ queue' = Append(queue, SpawnCmd(world.nextId, tf, tr, origin, end))
    /\ world' = [world EXCEPT !.nextId = @ + 1]
    /\ spawns' = spawns + 1
    /\ UNCHANGED <<phase, ran, inserts>>

\* The shot of the lifecycle specification: from the origin straight up.
ShotOrigin == Vec3(0, 0, 0)
ShotEnd == Vec3(0, 10, 0)
\* The end a later insert of the caller carries.
OtherEnd == Vec3(0, 20, 0)

RequestSpawn(tf, tr) == RequestSpawnAt(tf, tr, ShotOrigin, ShotEnd)

\* A system of the caller queues the insertion of a Tracer on a host it spawned.
RequestInsert(e) ==
    /\ ~world.panicked
    /\ inserts < MaxInserts
    /\ Len(queue) < MaxQueue
    /\ e \in world.alive
    /\ world.kind[e] = "host"
    /\ queue' = Append(queue, InsertTracerCmd(e, OtherEnd))
    /\ inserts' = inserts + 1
    /\ UNCHANGED <<world, phase, ran, spawns>>

\* app.add_systems(Update, despawn_tracers): one pass per tick.
despawn_tracers ==
    /\ ~world.panicked
    /\ phase = "Update"
    /\ "despawn_tracers" \notin ran
    /\ LET cmds == SweepCommands(world) IN
         /\ queue' = queue \o cmds
         /\ world' = NoteQueued(world, cmds)
    /\ ran' = ran \cup {"despawn_tracers"}
    /\ UNCHANGED <<phase, spawns, inserts>>

\* A synchronization point of the schedule.
ApplyDeferred ==
    /\ ~world.panicked
    /\ queue # <<>>
    /\ LET r == Flush(world, queue) IN
         /\ world' = r.w
         /\ queue' = r.q
    /\ UNCHANGED <<phase, ran, spawns, inserts>>

\* The tick ends with every command applied; the next one advances the clock.
AdvanceTime(d) ==
    /\ ~world.panicked
    /\ phase = "Update"
    /\ "despawn_tracers" \in ran
    /\ queue = <<>>
    /\ world.elapsed + d <= MaxTime
    /\ world' = [world EXCEPT !.elapsed = @ + d, !.prevElapsed = world.elapsed]
    /\ ran' = {}
    /\ UNCHANGED <<queue, phase, spawns, inserts>>

Next ==
    \/ setup_muzzle_flash_particle_system
    \/ StartupDone
    \/ \E tf \in BOOLEAN, tr \in BOOLEAN : RequestSpawn(tf, tr)
    \/ \E e \in Entities : RequestInsert(e)
    \/ despawn_tracers
    \/ ApplyDeferred
    \/ \E d \in Deltas : AdvanceTime(d)

Spec == Init /\ [][Next]_vars

\* A system of the caller queues the removal of a tracer host: removal by
\* external means.
RequestDespawn(e) ==
    /\ ~world.panicked
    /\ Len(queue) < MaxQueue
    /\ e \in world.alive
    /\ world.kind[e] = "host"
    /\ world.tracer[e]
    /\ \A i \in DOMAIN queue : queue[i] # ExternalDespawnCmd(e)
    /\ queue' = Append(queue, ExternalDespawnCmd(e))
    /\ UNCHANGED <<world, phase, ran, spawns, inserts>>

NextExt ==
    \/ Next
    \/ \E e \in Entities : RequestDespawn(e)

\* The program with a caller that also removes tracers itself.
SpecExt == Init /\ [][NextExt]_vars

\* The points shots are fired between: they give directions along the up
\* axis, against it, along and against the particles' axis, oblique ones, and
\* the shot whose end is its origin.
GeomPoints == {Vec3(0, 0, 0), Vec3(0, 10, 0), Vec3(3, 4, 0), Vec3(0, 0, -5)}

NextGeom ==
    \/ setup_muzzle_flash_particle_system
    \/ StartupDone
    \/ \E origin \in GeomPoints, end \in GeomPoints :
           RequestSpawnAt(TRUE, TRUE, origin, end)
    \/ ApplyDeferred

\* The spawn orchestrator on shots between any two of the points.
SpecGeom == Init /\ [][NextGeom]_vars

(***************************************************************************)
(* Properties                                                              *)
(***************************************************************************)
\* The sweep of the current tick has run.
Swept == phase = "Update" /\ "despawn_tracers" \in ran
\* Entities whose Tracer was attached at some clock value t0.
Attached == {e \in Entities : world.attachedAt[e] # <<>>}
T0(e) == world.attachedAt[e][1]
Deadline(e) == T0(e) + TRACER_DURATION_MILLIS
DespawnPending(e) == \E i \in DOMAIN queue : queue[i] = DespawnCmd(e)
IsChildKind(k) == k \in {"beam", "light", "particles"}

\* C1: a tracer spawned at clock value t0 is present at every clock value t
\* with t0 <= t <= t0 + 100ms, the deadline itself included, and no removal of
\* it is queued while the clock is at or before its deadline.
C1_PresentUntilDeadline ==
    \A e \in Attached :
        world.elapsed <= Deadline(e) =>
            /\ e \in world.alive
            /\ world.tracer[e]
            /\ ~DespawnPending(e)
            /\ world.despawnQueued[e] = 0

\* The clock stands exactly at the deadline of a tracer, the sweep of that tick
\* has run and its commands are applied, and the tracer is still there.
C1_Witness ==
    \E e \in Attached :
        /\ e \in world.spawned
        /\ world.elapsed = Deadline(e)
        /\ Swept /\ queue = <<>>
        /\ e \in world.alive
        /\ Cardinality(Children(world, e)) = 3

\* C2: no tracer outlives its deadline by more than one sweep interval: a tracer
\* that is past its deadline and still present is in the first tick past the
\* deadline and the sweep of that tick has not run yet, or its removal is
\* queued; once the commands of that tick are applied it is absent.
C2_RemovedWithinOneTick ==
    ~world.panicked =>
        \A e \in Attached :
            (world.elapsed > Deadline(e) /\ e \in world.alive) =>
                IF Swept THEN DespawnPending(e)
                ELSE /\ phase = "Update"
                     /\ world.prevElapsed <= Deadline(e)

\* A tracer is past its deadline, the sweep of the tick has run and its
\* commands are applied: the tracer is gone.
C2_Witness ==
    \E e \in Attached :
        /\ ~world.panicked
        /\ e \in world.spawned
        /\ world.elapsed > Deadline(e)
        /\ world.prevElapsed <= Deadline(e)
        /\ Swept /\ queue = <<>>
        /\ e \in world.removed

\* C3: every beam, light and particle-burst entity that exists has a parent
\* that exists and carries the Tracer; no child of a removed tracer remains.
C3_NoOrphanChild ==
    \A c \in world.alive :
        IsChildKind(world.kind[c]) =>
            /\ world.parent[c] # <<>>
            /\ world.parent[c][1] \in world.alive
            /\ world.parent[c][1] \notin world.removed
            /\ world.tracer[world.parent[c][1]]

\* A spawned tracer has been removed together with its three children, while
\* another tracer and its children are still there.
C3_Witness ==
    \E e \in world.spawned, f \in world.spawned :
        /\ e \in world.removed
        /\ Cardinality(world.removed) = 4
        /\ f \in world.alive
        /\ Cardinality(Children(world, f)) = 3

\* C4: every spawned tracer entity carries exactly one DespawnAfter, whose
\* lifetime is the constant 100ms and whose spawned_at is the clock value at
\* which the Tracer was attached.
C4_OneMarker ==
    \A e \in world.spawned \cap world.alive :
        /\ Len(world.despawnAfter[e]) = 1
        /\ world.despawnAfter[e][1].lifetime = TRACER_DURATION_MILLIS
        /\ world.despawnAfter[e][1].spawned_at = T0(e)

\* A tracer attached at a clock value other than zero carries its marker, in a
\* later tick.
C4_Witness ==
    \E e \in world.spawned \cap world.alive :
        /\ T0(e) > 0
        /\ world.elapsed > T0(e)
        /\ world.despawnAfter[e] = <<DespawnAfter(T0(e), TRACER_DURATION_MILLIS)>>

\* One pass of the sweep on world w followed by the synchronization point.
SweepAndSync(w) == Flush(w, SweepCommands(w)).w

\* C5: the sweep is idempotent: from every reachable state, a second pass with
\* no clock advance after the first queues nothing and leaves the entities and
\* their components as the first pass left them.
C5_SweepIdempotent ==
    ~world.panicked =>
        LET once == SweepAndSync(world) IN
            /\ SweepCommands(once) = <<>>
            /\ SweepAndSync(once) = once

\* Two tracers are past their deadline and the first pass removes both.
C5_Witness ==
    /\ ~world.panicked
    /\ queue = <<>>
    /\ Len(SweepCommands(world)) = 2
    /\ SweepAndSync(world).alive # world.alive

\* C6: no tracer entity is removed twice: at most one removal command is ever
\* queued for an entity, a queued removal names an entity that still exists,
\* and no removal is queued for an entity already removed.
C6_RemovedOnce ==
    /\ \A e \in Entities : world.despawnQueued[e] <= 1
    /\ \A i \in DOMAIN queue :
           queue[i].op = "despawn_recursive" =>
               /\ queue[i].e \in world.alive
               /\ \A j \in DOMAIN queue : queue[j] = queue[i] => j = i
    /\ \A e \in world.removed : ~DespawnPending(e)

\* A tracer was removed in an earlier tick and the sweep has run again since.
C6_Witness ==
    \E e \in world.removed :
        /\ world.despawnQueued[e] = 1
        /\ world.prevElapsed > Deadline(e)
        /\ world.elapsed > world.prevElapsed
        /\ Swept

\* The host whose removal takes entity e away: e itself, or its parent.
HostOf(w, e) == IF w.parent[e] = <<>> THEN e ELSE w.parent[e][1]

\* C7: an entity leaves the world only when the clock has crossed the deadline
\* of its tracer, and an entity that was removed never exists again.
C7_Step ==
    \A e \in Entities :
        /\ (e \in world.alive /\ e \notin world'.alive) =>
               /\ world.attachedAt[e] # <<>> \/ IsChildKind(world.kind[e])
               /\ world.attachedAt[HostOf(world, e)] # <<>>
               /\ world.elapsed > Deadline(HostOf(world, e))
        /\ e \in world.removed => (e \notin world'.alive /\ e \in world'.removed)
C7_AliveThenRemoved == [][C7_Step]_vars

\* A tracer removed in an earlier tick stays removed while the caller has
\* inserted again and another tracer lives.
C7_Witness ==
    \E e \in world.removed :
        /\ e \in world.spawned
        /\ e \notin world.alive
        /\ world.kind[e] = "none"
        /\ inserts = MaxInserts
        /\ queue = <<>>
        /\ world.prevElapsed > Deadline(e)
        /\ \E f \in world.spawned : f \in world.alive

\* Host e has its marker and exactly one beam, one light and one particle burst.
Complete(w, e) ==
    /\ w.despawnAfter[e] # <<>>
    /\ Cardinality(Children(w, e)) = 3
    /\ \A k \in {"beam", "light", "particles"} :
           Cardinality({c \in Children(w, e) : w.kind[c] = k}) = 1

\* C8: the sweep never sees a half-constructed tracer: in every state a system
\* can run in, an entity with a Tracer or a DespawnAfter has its marker and its
\* three children; and a synchronization point applies every queued spawn.
C8_Visible ==
    \A e \in world.alive :
        (world.despawnAfter[e] # <<>> \/ (world.tracer[e] /\ ~world.panicked))
            => Complete(world, e)
C8_SyncStep ==
    (queue # <<>> /\ world' # world /\ queue' # queue /\ ~world'.panicked) =>
        \/ \E c \in DOMAIN queue' : queue' = queue \o SubSeq(queue', c, Len(queue'))
        \/ /\ queue' = <<>>
           /\ \A i \in DOMAIN queue :
                  queue[i].op = "spawn" =>
                      /\ queue[i].e \in world'.alive \cup world'.removed
                      /\ queue[i].tr => queue[i].e \in world'.spawned
C8_NoHalfConstructed == []C8_Visible /\ [][C8_SyncStep]_vars

\* Two tracers requested in the same tick were applied at one synchronization
\* point and both stand complete before the sweep of the tick runs.
C8_Witness ==
    \E e \in world.spawned, f \in world.spawned :
        /\ e # f
        /\ {e, f} \subseteq world.alive
        /\ T0(e) = T0(f)
        /\ T0(e) = world.elapsed
        /\ world.elapsed > 0
        /\ phase = "Update" /\ ~Swept
        /\ Complete(world, e) /\ Complete(world, f)

\* C9: the hook runs exactly once for an entity the Tracer is attached to, and
\* its run yields exactly one beam, one light and one particle burst, all
\* three children of that entity.
C9_OnceThreeChildren ==
    /\ \A e \in Entities :
           /\ world.hookRuns[e] = (IF world.attachedAt[e] # <<>> THEN 1 ELSE 0)
           /\ (e \in world.alive /\ world.tracer[e]) => world.attachedAt[e] # <<>>
    /\ \A e \in world.spawned \cap world.alive :
           LET kids == Children(world, e) IN
               /\ Cardinality(kids) = 3
               /\ \A k \in {"beam", "light", "particles"} :
                      \E c \in kids : world.kind[c] = k
    /\ Cardinality({c \in world.alive : IsChildKind(world.kind[c])})
           = 3 * Cardinality(world.spawned \cap world.alive)

\* A Tracer was inserted on a host that already carried one: the hook has run
\* once for it and it has its three children.
C9_Witness ==
    \E e \in world.replaced :
        /\ e \in world.alive
        /\ world.hookRuns[e] = 1
        /\ Cardinality(Children(world, e)) = 3

\* C10: the spawned_at and lifetime of a DespawnAfter never change while the
\* entity exists.
C10_Step ==
    \A e \in Entities :
        (e \in world.alive /\ world.despawnAfter[e] # <<>> /\ e \in world'.alive)
            => world'.despawnAfter[e] = world.despawnAfter[e]
C10_MarkerFixed == [][C10_Step]_vars

\* A tracer lives on with its marker while the clock advanced, a Tracer was
\* inserted on it again and another tracer was spawned later.
C10_Witness ==
    \E e \in world.replaced, f \in world.spawned :
        /\ e \in world.alive
        /\ world.despawnAfter[e] # <<>>
        /\ T0(e) < world.elapsed
        /\ T0(f) > T0(e)

\* C11 as stated: after the hook has run for an entity, the entity no longer
\* carries the Tracer.
C11_DescriptorConsumed ==
    \A e \in world.spawned \cap world.alive : ~world.tracer[e]

\* C11 as amended: the Tracer is read by the hook and stays attached: an entity
\* the hook has run for carries it for as long as the entity exists, and no
\* longer.
C11_DescriptorRetained ==
    /\ \A e \in world.spawned : (e \in world.alive) = world.tracer[e]
    /\ \A e \in world.removed : ~world.tracer[e]

\* A spawned tracer still carries its Tracer in a tick after the one it was
\* spawned in, the sweep of that tick having run.
C11_Witness ==
    \E e \in world.spawned \cap world.alive :
        /\ world.tracer[e]
        /\ world.despawnAfter[e] # <<>>
        /\ world.elapsed > T0(e)
        /\ Swept /\ queue = <<>>

\* C12: a tracer removed by external means makes the sweep raise no error: no
\* removal command of the sweep is ever applied to an entity that no longer
\* exists, also when the external removal and the sweep's removal are queued
\* in the same tick.
C12_NoStaleRemoval ==
    \A e \in Entities : <<e, "despawn_recursive">> \notin world.stale

\* Entities whose hook run ended in a panic.
FailedSpawns == {e \in world.alive : world.hookRuns[e] > 0 /\ e \notin world.spawned}

\* C13: attaching a Tracer to an entity without a Transform, or before the
\* MuzzleFlashEffect resource is inserted (a deferred command of the Startup
\* pass), is fatal: the run panics and takes no further step.  Once Startup is
\* over the resource is there, a spawn on a host with a Transform never fails,
\* and the resource, once inserted, is never removed or inserted again.
C13_Fatal ==
    /\ \A e \in world.alive :
           (world.tracer[e] /\ (~world.transform[e] \/ ~world.muzzleFlash))
               => world.panicked
    /\ world.panicked =>
           /\ Cardinality(FailedSpawns) = 1
           /\ \A e \in FailedSpawns :
                  /\ world.tracer[e]
                  /\ ~world.transform[e] \/ ~world.muzzleFlash
                  /\ (phase = "Update") => ~world.transform[e]
    /\ ~world.panicked => FailedSpawns = {}
    /\ (phase = "Update") => world.muzzleFlash
    /\ \A i \in DOMAIN queue :
           queue[i].op = "insert_resource" => (phase = "Startup" /\ ~world.muzzleFlash)
C13_Step ==
    /\ ~world.panicked
    /\ world.muzzleFlash => world'.muzzleFlash
C13_MissingPrecondition == []C13_Fatal /\ [][C13_Step]_vars

\* The setup system has run, but a spawn queued before it was applied first:
\* the hook found no resource, on a host that has a Transform, and panicked.
C13_Witness ==
    /\ world.panicked
    /\ phase = "Startup"
    /\ "setup_muzzle_flash_particle_system" \in ran
    /\ ~world.muzzleFlash
    /\ \E e \in world.alive : world.tracer[e] /\ world.transform[e]

\* The tracers the hook built that are still in the world, and their parts.
Built == world.spawned \cap world.alive
Origin(e) == world.translation[e][1]
End(e) == world.tracerEnd[e][1]
Part(e, k) == CHOOSE c \in Children(world, e) : world.kind[c] = k

\* C14: a tracer whose end is its origin is spawned without a panic, with its
\* marker and its three children, and its beam and its particles get a
\* well-defined fallback orientation.
C14_ZeroLengthFallback ==
    \A e \in Built :
        Origin(e) = End(e) =>
            /\ ~world.panicked
            /\ Complete(world, e)
            /\ world.rotation[Part(e, "beam")][1].kind # "nan"
            /\ world.rotation[Part(e, "particles")][1].kind # "nan"

\* C15: for a tracer whose end is not its origin, the beam's cylinder is as
\* long as the distance from origin to end, the beam sits half of end - origin
\* away from the host, and its rotation takes the up axis onto the normalized
\* end - origin; from (0,0,0) to (0,10,0) the length is 10, the rotation the
\* identity and the offset (0,5,0).
C15_BeamGeometry ==
    \A e \in Built :
        Origin(e) # End(e) =>
            LET b == Part(e, "beam")
                d == [i \in 1..3 |-> End(e)[i] - Origin(e)[i]]
            IN /\ world.beam[b][1].mesh.height.sq = d[1] * d[1] + d[2] * d[2] + d[3] * d[3]
               /\ \A i \in 1..3 : 2 * world.translation[b][1][i] = d[i]
               /\ RotatesOnto(world.rotation[b][1], Y, Normalize(Sub(End(e), Origin(e))))
               /\ (Origin(e) = Vec3(0, 0, 0) /\ End(e) = Vec3(0, 10, 0)) =>
                      /\ world.beam[b][1].mesh.height = Scalar(10)
                      /\ world.rotation[b][1] = IDENTITY
                      /\ world.translation[b][1] = Vec3(0, 5, 0)

\* The shot from (0,0,0) to (0,10,0) has been built, and so has an oblique
\* one, whose beam is turned by an arc and sits at a point with a half unit.
C15_Witness ==
    /\ \E e \in Built :
           /\ Origin(e) = Vec3(0, 0, 0) /\ End(e) = Vec3(0, 10, 0)
           /\ world.rotation[Part(e, "beam")][1] = IDENTITY
    /\ \E e \in Built :
           /\ Origin(e) = Vec3(0, 0, 0) /\ End(e) = Vec3(3, 4, 0)
           /\ world.rotation[Part(e, "beam")][1].kind = "arc"
           /\ world.translation[Part(e, "beam")][1] = <<3, 4, 0>>
           /\ world.beam[Part(e, "beam")][1].mesh.height = Scalar(5)

\* Whether the f32 f is within half a unit in its last place of ms milliseconds
\* counted in seconds, i.e. is an f32 nearest to ms / 1000.
NearestSeconds(f, ms) ==
    IF ms = 0 THEN f.mant = 0
    ELSE LET g == Gcd(ms, 1000)
             num == ms \div g
             den == 1000 \div g
         IN /\ f.mant >= 2^23 /\ f.mant < 2^24
            /\ 2 * Abs(f.mant * den - num * 2^(f.scale)) <= den
Material(e) == world.beam[Part(e, "beam")][1].material

\* C16: the times handed to the beam's material agree with the tracer's
\* DespawnAfter: time_spawned is spawned_at and time_alive is lifetime, each as
\* f32 seconds (the f32 nearest to the marker's value), so the window the
\* material describes ends at the deadline the sweep compares against.
C16_MaterialAgreesWithMarker ==
    \A e \in Built :
        /\ world.despawnAfter[e] # <<>>
        /\ LET m == world.despawnAfter[e][1] IN
             /\ Material(e).time_spawned = AsSecsF32(m.spawned_at)
             /\ Material(e).time_alive = AsSecsF32(m.lifetime)
             /\ NearestSeconds(Material(e).time_spawned, m.spawned_at)
             /\ NearestSeconds(Material(e).time_alive, m.lifetime)
             /\ NearestSeconds(Material(e).time_spawned, Deadline(e) - m.lifetime)

\* A tracer built after the clock has advanced: both times of its material
\* are rounded f32 values, not zero.
C16_Witness ==
    \E e \in Built :
        /\ world.despawnAfter[e] # <<>>
        /\ world.despawnAfter[e][1].spawned_at > 0
        /\ Material(e).time_spawned.mant > 0
        /\ Material(e).time_alive.mant > 0

\* C17: inserting a Tracer on an entity that carries one replaces the value
\* and does not run the hook again: the step leaves the marker, the children
\* and their geometry as they were, however late it comes, and a tracer whose
\* value was replaced has had one hook run, has three children and a marker
\* stamped with the clock value of its first attach.
C17_Replaced(e) ==
    /\ e \in world.alive /\ e \in world'.alive
    /\ world.tracer[e]
    /\ \/ e \in world'.replaced \ world.replaced
       \/ world'.tracerEnd[e] # world.tracerEnd[e]
C17_Step ==
    \A e \in Entities :
        C17_Replaced(e) =>
            /\ world'.tracer[e]
            /\ world'.hookRuns[e] = world.hookRuns[e]
            /\ world'.despawnAfter[e] = world.despawnAfter[e]
            /\ Children(world', e) = Children(world, e)
            /\ \A c \in Children(world, e) :
                   /\ world'.kind[c] = world.kind[c]
                   /\ world'.translation[c] = world.translation[c]
                   /\ world'.rotation[c] = world.rotation[c]
                   /\ world'.beam[c] = world.beam[c]
C17_AfterReplace ==
    \A e \in world.replaced \cap world.alive :
        /\ world.hookRuns[e] = 1
        /\ Cardinality(Children(world, e)) = 3
        /\ world.despawnAfter[e] # <<>>
        /\ world.despawnAfter[e][1].spawned_at + world.despawnAfter[e][1].lifetime
               = Deadline(e)
C17_ReplaceDoesNotRespawn == []C17_AfterReplace /\ [][C17_Step]_vars

\* A live tracer stamped at an earlier clock value carries the end of a later
\* insert, and still has its first marker and its three children.
C17_Witness ==
    \E e \in world.replaced \cap world.alive :
        /\ world.tracerEnd[e] = <<OtherEnd>>
        /\ world.despawnAfter[e] # <<>>
        /\ world.despawnAfter[e][1].spawned_at < world.elapsed
        /\ Cardinality(Children(world, e)) = 3

====
